---- MODULE Spec2Model ----
(***************************************************************************)
(* A model of the serde-ubjson encoder (src/src/ser.rs).                   *)
(*                                                                         *)
(* Rust integers are modelled as typed bit patterns: a record              *)
(* [ty, bits] where bits is the big-endian byte sequence of the value in   *)
(* its declared width.  Casts (`as`, `From`) truncate or extend the        *)
(* pattern, comparisons are signed or unsigned on the pattern, and the     *)
(* byteorder writers put the pattern on the sink.  The mathematical value  *)
(* of a pattern (sign and 8-byte magnitude) is defined separately and is   *)
(* used only by the properties.                                            *)
(*                                                                         *)
(* Each serialize_* function of the code is an operator that yields the    *)
(* sequence of calls the function issues (sink writes, or an immediate     *)
(* Err), in program order; every such call is followed by `?` or is the    *)
(* function's tail expression, so Exec runs the sequence up to the first   *)
(* failure.                                                                *)
(***************************************************************************)
EXTENDS Integers, Sequences, FiniteSets, TLC

VARIABLES
    inner,      \* Serializer.inner: the sink [buf, limited, room]
    result,     \* "none" before any call, else the Result of the last call
    call,       \* the last call of the visitor: [op, val, was]
    regions,    \* stack of open compound writers (Static / Dynamic)
    log,        \* every write_all call made on the sink: [bytes, taken]
    ops,        \* number of calls the visitor has made
    probe,      \* the visitor: "wide" (large inputs, few calls) or "deep"
    overflow_checks   \* the build: TRUE when integer overflow panics (debug)

vars == <<inner, result, call, regions, log, ops, probe, overflow_checks>>

-----------------------------------------------------------------------------
(* Marker bytes (src/src/marker.rs) *)

marker_NULL == 90
marker_NOOP == 78
marker_TRUE == 84
marker_FALSE == 70
marker_I8 == 105
marker_U8 == 85
marker_I16 == 73
marker_I32 == 108
marker_I64 == 76
marker_F32 == 100
marker_F64 == 68
marker_HI_PRECISION == 72
marker_CHAR == 67
marker_STRING == 83
marker_ARR_START == 91
marker_ARR_END == 93
marker_OBJ_START == 123
marker_OBJ_END == 125
marker_TYPE == 36
marker_LENGTH == 35

-----------------------------------------------------------------------------
(* Rust integer types as typed bit patterns *)

Byte == 0..255

IntTypes == {"i8", "i16", "i32", "i64", "u8", "u16", "u32", "u64"}

\* size in bytes of an integer type
Width(ty) ==
    CASE ty \in {"i8", "u8"} -> 1
      [] ty \in {"i16", "u16"} -> 2
      [] ty \in {"i32", "u32"} -> 4
      [] ty \in {"i64", "u64"} -> 8

Signed(ty) == ty \in {"i8", "i16", "i32", "i64"}

Fill(n, b) == [i \in 1..n |-> b]

\* T::min_value()
min_value(ty) ==
    [ty |-> ty,
     bits |-> IF Signed(ty) THEN <<128>> \o Fill(Width(ty) - 1, 0)
              ELSE Fill(Width(ty), 0)]

\* T::max_value()
max_value(ty) ==
    [ty |-> ty,
     bits |-> IF Signed(ty) THEN <<127>> \o Fill(Width(ty) - 1, 255)
              ELSE Fill(Width(ty), 255)]

\* `v as ty`, and ty::from(v) where Rust offers it: truncate to the low
\* bytes when narrowing, sign- or zero-extend by the SOURCE type when widening
As(v, ty) ==
    LET sw == Width(v.ty)
        w  == Width(ty)
        ext == IF Signed(v.ty) /\ v.bits[1] >= 128 THEN 255 ELSE 0
    IN [ty |-> ty,
        bits |-> IF w <= sw THEN SubSeq(v.bits, sw - w + 1, sw)
                 ELSE Fill(w - sw, ext) \o v.bits]

\* unsigned lexicographic order on equal-length big-endian byte strings
LtBytes(a, b) ==
    \E i \in 1..Len(a) : a[i] < b[i] /\ \A j \in 1..(i - 1) : a[j] = b[j]

\* flipping the sign bit turns the signed order into the unsigned one
Bias(bits) == [bits EXCEPT ![1] = (bits[1] + 128) % 256]

\* a <= b for two values of the same integer type
Le(a, b) ==
    IF Signed(a.ty)
    THEN a.bits = b.bits \/ LtBytes(Bias(a.bits), Bias(b.bits))
    ELSE a.bits = b.bits \/ LtBytes(a.bits, b.bits)

\* an integer literal, or a usize/char scalar below 2^31, as a value of ty
Lit(n, ty) ==
    [ty |-> ty,
     bits |-> [i \in 1..Width(ty) |->
                 IF Width(ty) - i >= 4 THEN 0
                 ELSE (n \div (256 ^ (Width(ty) - i))) % 256]]

-----------------------------------------------------------------------------
(* Calls issued by the serialize functions *)

\* self.inner.write_all(bytes)  (write_u8, write_i16::<BigEndian>, ... are
\* write_all of the value's big-endian bytes)
Write(bytes) == [fail |-> "", bytes |-> bytes]

\* return Err(e)
Fail(e) == [fail |-> e, bytes |-> <<>>]

write_u8(b) == <<Write(<<b>>)>>

\* write_i8 / write_i16::<BigEndian> / write_i32 / write_i64 of a value
write_int(v) == <<Write(v.bits)>>

-----------------------------------------------------------------------------
(* u64::to_string: the decimal ASCII digits, most significant first *)

RECURSIVE Rem10(_, _)
\* the number formed by the first k bytes of bits, modulo 10
Rem10(bits, k) ==
    IF k = 0 THEN 0 ELSE (Rem10(bits, k - 1) * 256 + bits[k]) % 10

\* bits divided by 10 (schoolbook long division, one byte at a time)
Quot10(bits) ==
    [i \in 1..Len(bits) |-> (Rem10(bits, i - 1) * 256 + bits[i]) \div 10]

IsZero(bits) == \A i \in 1..Len(bits) : bits[i] = 0

RECURSIVE Digits(_)
Digits(bits) ==
    IF IsZero(bits) THEN <<>>
    ELSE Digits(Quot10(bits)) \o <<48 + Rem10(bits, Len(bits))>>

\* mutant: the digits are collected least significant first and not reversed
RECURSIVE DigitsLsdFirst(_)
DigitsLsdFirst(bits) ==
    IF IsZero(bits) THEN <<>>
    ELSE <<48 + Rem10(bits, Len(bits))>> \o DigitsLsdFirst(Quot10(bits))

to_string_lsd_first(v) == IF IsZero(v.bits) THEN <<48>> ELSE DigitsLsdFirst(v.bits)

to_string(v) == IF IsZero(v.bits) THEN <<48>> ELSE Digits(v.bits)

-----------------------------------------------------------------------------
(* impl ser::Serializer for &mut Serializer<W>: integers *)

serialize_i8(v) == write_u8(marker_I8) \o write_int(v)

serialize_u8(v) == write_u8(marker_U8) \o write_int(v)

\* mutant: the unsigned-8 slot between signed-8 and signed-16 is not tried
serialize_i16_no_u8(v) ==
    IF Le(As(min_value("i8"), "i16"), v) /\ Le(v, As(max_value("i8"), "i16"))
    THEN serialize_i8(As(v, "i8"))
    ELSE write_u8(marker_I16) \o write_int(v)

serialize_i16(v) ==
    IF Le(As(min_value("i8"), "i16"), v) /\ Le(v, As(max_value("i8"), "i16"))
    THEN serialize_i8(As(v, "i8"))
    ELSE IF Le(As(min_value("u8"), "i16"), v) /\ Le(v, As(max_value("u8"), "i16"))
    THEN serialize_u8(As(v, "u8"))
    ELSE write_u8(marker_I16) \o write_int(v)

\* mutant: the declared width is trusted, no narrowing below 32 bits
serialize_i32_declared(v) == write_u8(marker_I32) \o write_int(v)

serialize_i32(v) ==
    IF Le(As(min_value("i16"), "i32"), v) /\ Le(v, As(max_value("i16"), "i32"))
    THEN serialize_i16(As(v, "i16"))
    ELSE write_u8(marker_I32) \o write_int(v)

serialize_i64(v) ==
    IF Le(As(min_value("i32"), "i64"), v) /\ Le(v, As(max_value("i32"), "i64"))
    THEN serialize_i32(As(v, "i32"))
    ELSE write_u8(marker_I64) \o write_int(v)

\* mutant: everything above u8::MAX is cast to i16, also what i16 cannot hold
serialize_u16_wrap(v) ==
    IF Le(v, As(max_value("u8"), "u16"))
    THEN serialize_u8(As(v, "u8"))
    ELSE serialize_i16(As(v, "i16"))

serialize_u16(v) ==
    IF Le(v, As(max_value("u8"), "u16"))
    THEN serialize_u8(As(v, "u8"))
    ELSE IF Le(v, As(max_value("i16"), "u16"))
    THEN serialize_i16(As(v, "i16"))
    ELSE serialize_i32(As(v, "i32"))

serialize_u32(v) ==
    IF Le(v, As(max_value("u16"), "u32"))
    THEN serialize_u16(As(v, "u16"))
    ELSE IF Le(v, As(max_value("i32"), "u32"))
    THEN serialize_i32(As(v, "i32"))
    ELSE serialize_i64(As(v, "i64"))

RECURSIVE serialize_u64(_)
serialize_u64(v) ==
    IF Le(v, As(max_value("u32"), "u64"))
    THEN serialize_u32(As(v, "u32"))
    ELSE IF Le(v, As(max_value("i64"), "u64"))
    THEN serialize_i64(As(v, "i64"))
    ELSE LET s == to_string(v)
         IN write_u8(marker_HI_PRECISION)
              \o serialize_u64(Lit(Len(s), "u64"))
              \o <<Write(s)>>

\* impl Serialize for usize (serde): serializer.serialize_u64(*self as u64)
serialize_usize(n) == serialize_u64(Lit(n, "u64"))

\* usize is 64 bits wide; a usize below 2^31 from its number, and back
usize(n) == Lit(n, "u64")
usize_MAX == max_value("u64")
as_int(v) ==
    v.bits[5] * 16777216 + v.bits[6] * 65536 + v.bits[7] * 256 + v.bits[8]

\* v + 1 in a build without overflow checks: usize::MAX wraps to 0
wrapping_add_1(v) ==
    [v EXCEPT !.bits =
        [i \in 1..Len(v.bits) |->
            IF \A j \in (i + 1)..Len(v.bits) : v.bits[j] = 255
            THEN (v.bits[i] + 1) % 256 ELSE v.bits[i]]]

\* the serialize method for declared type ty (impl Serialize for i8..u64)
serialize_int(ty, v) ==
    CASE ty = "i8" -> serialize_i8(v)
      [] ty = "i16" -> serialize_i16(v)
      [] ty = "i32" -> serialize_i32(v)
      [] ty = "i64" -> serialize_i64(v)
      [] ty = "u8" -> serialize_u8(v)
      [] ty = "u16" -> serialize_u16(v)
      [] ty = "u32" -> serialize_u32(v)
      [] ty = "u64" -> serialize_u64(v)

-----------------------------------------------------------------------------
(* impl ser::Serializer for &mut Serializer<W>: the other scalars *)

serialize_bool(v) == write_u8(IF v THEN marker_TRUE ELSE marker_FALSE)

\* a float is its IEEE-754 bit pattern; write_f32::<BigEndian> writes it
serialize_f32(bits) == write_u8(marker_F32) \o <<Write(bits)>>

serialize_f64(bits) == write_u8(marker_F64) \o <<Write(bits)>>

\* mutant: every char of the Latin-1 range gets the C marker
serialize_char_latin1(c) ==
    LET v == Lit(c, "u32")
    IN IF Le(v, Lit(255, "u32"))
       THEN write_u8(marker_CHAR) \o <<Write(As(v, "u8").bits)>>
       ELSE serialize_u32(v)

\* c is the Unicode scalar value of the char
serialize_char(c) ==
    LET v == Lit(c, "u32")
    IN IF Le(v, Lit(127, "u32"))
       THEN write_u8(marker_CHAR) \o <<Write(As(v, "u8").bits)>>
       ELSE serialize_u32(v)

\* mutant: the length goes out as a full-width L integer
serialize_str_wide_len(v) ==
    write_u8(marker_STRING)
      \o write_u8(marker_I64) \o write_int(Lit(Len(v), "u64"))
      \o <<Write(v)>>

\* v is the UTF-8 byte string of the &str
serialize_str(v) ==
    write_u8(marker_STRING) \o serialize_u64(Lit(Len(v), "u64")) \o <<Write(v)>>

serialize_bytes(v) ==
    <<Write(<<marker_ARR_START, marker_TYPE, marker_U8, marker_LENGTH>>)>>
      \o serialize_u64(Lit(Len(v), "u64"))
      \o <<Write(v)>>

serialize_none == write_u8(marker_NULL)

serialize_unit == serialize_none

serialize_unit_struct == serialize_none

serialize_unit_variant(variant_index) == serialize_u32(Lit(variant_index, "u32"))

-----------------------------------------------------------------------------
(* Compound regions.  An Option<usize> is [known, n]. *)

NoLen == [known |-> FALSE, n |-> 0]
SomeLen(n) == [known |-> TRUE, n |-> n]

\* mutant: the count is written without the # marker
serialize_seq_no_hash(len) ==
    write_u8(marker_ARR_START)
      \o (IF len.known THEN serialize_usize(len.n) ELSE <<>>)

\* what serialize_seq writes; the Dynamic it returns has length_known = len.known
serialize_seq(len) ==
    write_u8(marker_ARR_START)
      \o (IF len.known THEN write_u8(marker_LENGTH) \o serialize_usize(len.n) ELSE <<>>)

\* what serialize_tuple writes; it returns a Static
serialize_tuple(len) ==
    <<Write(<<marker_ARR_START, marker_LENGTH>>)>> \o serialize_u64(As(len, "u64"))

serialize_tuple_struct(len) == serialize_tuple(len)

\* mutant: the tuple is declared with len elements, the ordinal not counted
serialize_tuple_variant_len(variant_index, len) ==
    serialize_tuple(len) \o serialize_u32(Lit(variant_index, "u32"))

\* `len + 1` is evaluated first: at usize::MAX it panics in a build with
\* overflow checks and is 0 in a build without
serialize_tuple_variant(variant_index, len) ==
    IF len = usize_MAX /\ overflow_checks
    THEN <<Fail("panic")>>
    ELSE serialize_tuple(wrapping_add_1(len)) \o serialize_u32(Lit(variant_index, "u32"))

serialize_map(len) ==
    write_u8(marker_OBJ_START)
      \o (IF len.known THEN write_u8(marker_LENGTH) \o serialize_usize(len.n) ELSE <<>>)

\* mutant: a struct is declared with one element more than it has fields
serialize_struct_off_by_one(len) == serialize_tuple(wrapping_add_1(len))

serialize_struct(len) == serialize_tuple(len)

serialize_struct_variant(variant_index, len) == serialize_tuple_variant(variant_index, len)

\* SerializeTuple::end for Static, and the four impls that forward to it
Static_end == <<>>

\* SerializeSeq::end for Dynamic
Dynamic_seq_end(length_known) ==
    IF ~length_known THEN write_u8(marker_ARR_END) ELSE <<>>

\* mutant: a map of unknown length is closed with ]
Dynamic_map_end_bracket(length_known) ==
    IF ~length_known THEN write_u8(marker_ARR_END) ELSE <<>>

\* SerializeMap::end for Dynamic
Dynamic_map_end(length_known) ==
    IF ~length_known THEN write_u8(marker_OBJ_END) ELSE <<>>

-----------------------------------------------------------------------------
(* The visitor: a value describes itself as one call on the serializer.    *)
(* A value is a record [kind, ...]; Serialize(v) is v.serialize(ser), with *)
(* the element loops of serde's impls for the compound kinds.              *)

IntKinds == IntTypes

RECURSIVE Serialize(_)

\* mutant: a Some(v) is announced by a marker of its own
serialize_some_marked(value) == write_u8(marker_TRUE) \o Serialize(value)

serialize_some(value) == Serialize(value)

serialize_newtype_struct(value) == Serialize(value)

serialize_newtype_variant(variant_index, value) ==
    serialize_tuple(usize(2))
      \o serialize_u32(Lit(variant_index, "u32"))
      \o Serialize(value)
      \o Static_end

RECURSIVE SerializeAll(_)
\* serialize_element / serialize_field / serialize_value for each part in turn
SerializeAll(parts) ==
    IF parts = <<>> THEN <<>>
    ELSE Serialize(Head(parts)) \o SerializeAll(Tail(parts))

\* mutant: a char key is accepted and written as a one-byte string
MapKeySerializer_char_ok(key) ==
    CASE key.kind = "str" -> serialize_usize(Len(key.s)) \o <<Write(key.s)>>
      [] key.kind = "char" -> serialize_usize(1) \o <<Write(<<key.c % 256>>)>>
      [] OTHER -> <<Fail("KeyMustBeAString")>>

\* key.serialize(MapKeySerializer { .. }): serialize_str writes, the other
\* 29 methods return Err(Error::KeyMustBeAString)
MapKeySerializer(key) ==
    CASE key.kind = "str" -> serialize_usize(Len(key.s)) \o <<Write(key.s)>>
      [] OTHER -> <<Fail("KeyMustBeAString")>>

RECURSIVE SerializePairs_value_first(_)
\* mutant: the value of a pair is written before its key
SerializePairs_value_first(pairs) ==
    IF pairs = <<>> THEN <<>>
    ELSE Serialize(Head(pairs)[2]) \o MapKeySerializer(Head(pairs)[1])
           \o SerializePairs_value_first(Tail(pairs))

RECURSIVE SerializePairs(_)
SerializePairs(pairs) ==
    IF pairs = <<>> THEN <<>>
    ELSE MapKeySerializer(Head(pairs)[1]) \o Serialize(Head(pairs)[2])
           \o SerializePairs(Tail(pairs))

Serialize(v) ==
    CASE v.kind = "bool" -> serialize_bool(v.b)
      [] v.kind \in IntKinds -> serialize_int(v.kind, [ty |-> v.kind, bits |-> v.bits])
      [] v.kind = "f32" -> serialize_f32(v.bits)
      [] v.kind = "f64" -> serialize_f64(v.bits)
      [] v.kind = "char" -> serialize_char(v.c)
      [] v.kind = "str" -> serialize_str(v.s)
      [] v.kind = "bytes" -> serialize_bytes(v.s)
      [] v.kind = "none" -> serialize_none
      [] v.kind = "some" -> serialize_some(v.val)
      [] v.kind = "unit" -> serialize_unit
      [] v.kind = "unit_struct" -> serialize_unit_struct
      [] v.kind = "unit_variant" -> serialize_unit_variant(v.ordinal)
      [] v.kind = "newtype_struct" -> serialize_newtype_struct(v.val)
      [] v.kind = "newtype_variant" -> serialize_newtype_variant(v.ordinal, v.val)
      [] v.kind = "seq" ->
            serialize_seq(v.len) \o SerializeAll(v.parts) \o Dynamic_seq_end(v.len.known)
      [] v.kind = "tuple" ->
            serialize_tuple(usize(v.len.n)) \o SerializeAll(v.parts) \o Static_end
      [] v.kind = "tuple_struct" ->
            serialize_tuple_struct(usize(v.len.n)) \o SerializeAll(v.parts) \o Static_end
      [] v.kind = "struct" ->
            serialize_struct(usize(v.len.n)) \o SerializeAll(v.parts) \o Static_end
      [] v.kind = "tuple_variant" ->
            serialize_tuple_variant(v.ordinal, usize(v.len.n)) \o SerializeAll(v.parts) \o Static_end
      [] v.kind = "struct_variant" ->
            serialize_struct_variant(v.ordinal, usize(v.len.n)) \o SerializeAll(v.parts) \o Static_end
      [] v.kind = "map" ->
            serialize_map(v.len) \o SerializePairs(v.pairs) \o Dynamic_map_end(v.len.known)

-----------------------------------------------------------------------------
(* The sink and the `?` operator *)

\* W::write_all on a sink that accepts `room` more bytes (a Vec never
\* rejects): the bytes that fit are appended, and the call fails with an
\* I/O error when some did not fit.  The log keeps every call made.
write_all(s, bytes) ==
    LET fits == ~s.inner.limited \/ Len(bytes) <= s.inner.room
        taken == IF fits THEN bytes ELSE SubSeq(bytes, 1, s.inner.room)
    IN [inner |-> [s.inner EXCEPT !.buf = @ \o taken,
                                  !.room = IF s.inner.limited THEN @ - Len(taken) ELSE @],
        log |-> Append(s.log, [bytes |-> bytes, taken |-> Len(taken)]),
        result |-> IF fits THEN "Ok" ELSE "Io"]

RECURSIVE ExecNoStop(_, _)
\* mutant: a failed call is not returned from, the calls after it still run
ExecNoStop(s, tr) ==
    IF tr = <<>> THEN s
    ELSE IF Head(tr).fail # ""
    THEN ExecNoStop([s EXCEPT !.result = Head(tr).fail], Tail(tr))
    ELSE LET t == write_all(s, Head(tr).bytes)
         IN ExecNoStop([t EXCEPT !.result = IF s.result = "Ok" THEN t.result ELSE s.result],
                       Tail(tr))

RECURSIVE Exec(_, _)
\* run the calls of tr in order; `?` returns at the first failure
Exec(s, tr) ==
    IF tr = <<>> \/ s.result # "Ok" THEN s
    ELSE IF Head(tr).fail # ""
    THEN [s EXCEPT !.result = Head(tr).fail]
    ELSE Exec(write_all(s, Head(tr).bytes), Tail(tr))

\* one call of the visitor on the serializer in the current state
Run(tr) == Exec([inner |-> inner, log |-> log, result |-> "Ok"], tr)

-----------------------------------------------------------------------------
(* Bounds and inputs *)

MaxRoom == 3      \* a limited sink accepts 0..MaxRoom bytes
MaxOps == 4       \* calls of a deep visitor in one encode
MaxDepth == 2     \* compound regions open at once
MaxCount == 1     \* declared count of a nested region
MaxWrap == 1      \* Some / newtype wrappers around a value
MaxChars == 3     \* chars of an enumerated string, bytes of a buffer

Probe == {0, 1, 127, 128, 255}

Bits1 == {<<a>> : a \in Byte}
Bits2 == {<<a, b>> : a \in Probe, b \in Probe}
Bits4 == {<<a, b>> \o c : a \in Probe, b \in Probe, c \in Bits2}
High4 == {<<a, b, b, c>> : a \in {0, 127, 128, 255}, b \in {0, 255}, c \in {0, 1, 255}}
Bits8 == {h \o l : h \in High4, l \in Bits4}

BitsOf(ty) ==
    CASE Width(ty) = 1 -> Bits1
      [] Width(ty) = 2 -> Bits2
      [] Width(ty) = 4 -> Bits4
      [] Width(ty) = 8 -> Bits8

IntInputs(ty) == {[ty |-> ty, bits |-> b] : b \in BitsOf(ty)}

\* Unicode scalar values around every threshold of serialize_char
CharInputs ==
    (0..300) \cup {32767, 32768, 44032, 55295, 57344, 65535, 65536, 1114111}

\* UTF-8 strings of up to n chars over 'a' and the two-byte 'À'
RECURSIVE StrsUpTo(_)
StrsUpTo(n) ==
    IF n = 0 THEN {<<>>}
    ELSE LET shorter == StrsUpTo(n - 1)
         IN shorter \cup {s \o c : s \in shorter, c \in {<<97>>, <<195, 128>>}}

\* byte lengths around the thresholds of the length's narrowing
LongLens == {127, 128, 255, 256, 32767, 32768}

StrInputs == StrsUpTo(MaxChars) \cup {Fill(n, 97) : n \in LongLens}

RECURSIVE BufsUpTo(_)
BufsUpTo(n) ==
    IF n = 0 THEN {<<>>}
    ELSE LET shorter == BufsUpTo(n - 1)
         IN shorter \cup {s \o <<c>> : s \in shorter, c \in {0, marker_ARR_END, 255}}

BytesInputs == BufsUpTo(MaxChars) \cup {Fill(n, 255) : n \in LongLens}

\* f32 / f64 bit patterns: 0.0 and PI (tests/ser.rs)
F32Inputs == {<<0, 0, 0, 0>>, <<64, 73, 15, 219>>}
F64Inputs == {<<0, 0, 0, 0, 0, 0, 0, 0>>, <<64, 9, 33, 251, 84, 68, 45, 24>>}

OrdinalInputs == {0, 1, 127, 128, 255, 256, 32768}

CountInputs == (0..3) \cup LongLens

\* value descriptions: a field name carries one type in every kind
Bool(b) == [kind |-> "bool", b |-> b]
IntV(ty, bits) == [kind |-> ty, bits |-> bits]
Float(kind, bits) == [kind |-> kind, bits |-> bits]
Char(c) == [kind |-> "char", c |-> c]
Str(s) == [kind |-> "str", s |-> s]
Buf(s) == [kind |-> "bytes", s |-> s]
K(kind) == [kind |-> kind]
Some(v) == [kind |-> "some", val |-> v]
Newtype(v) == [kind |-> "newtype_struct", val |-> v]
T == Bool(TRUE)
A == Str(<<97>>)

\* one or a few values of every scalar kind
Scalars ==
    {Bool(TRUE), Bool(FALSE), Char(65), Char(192),
     Str(<<>>), Str(<<97>>), Buf(<<255>>),
     Float("f32", <<0, 0, 0, 0>>), Float("f64", <<64, 9, 33, 251, 84, 68, 45, 24>>),
     K("none"), K("unit"), K("unit_struct"),
     [kind |-> "unit_variant", ordinal |-> 1]}
    \cup {IntV(ty, Lit(0, ty).bits) : ty \in IntTypes}
    \cup {IntV("i16", <<255, 127>>), IntV("u64", Fill(8, 255))}

\* values of every compound kind, with the elements serde's impls append
Compounds ==
    {[kind |-> "seq", len |-> NoLen, parts |-> <<>>],
     [kind |-> "seq", len |-> NoLen, parts |-> <<T>>],
     [kind |-> "seq", len |-> SomeLen(1), parts |-> <<A>>],
     [kind |-> "map", len |-> NoLen, pairs |-> <<<<A, T>>>>],
     [kind |-> "map", len |-> SomeLen(0), pairs |-> <<>>],
     [kind |-> "tuple", len |-> SomeLen(2), parts |-> <<T, A>>],
     [kind |-> "tuple_struct", len |-> SomeLen(1), parts |-> <<T>>],
     [kind |-> "struct", len |-> SomeLen(1), parts |-> <<A>>],
     [kind |-> "tuple_variant", ordinal |-> 1, len |-> SomeLen(1), parts |-> <<T>>],
     [kind |-> "struct_variant", ordinal |-> 2, len |-> SomeLen(1), parts |-> <<A>>]}

Wrap(S) ==
    {Some(v) : v \in S}
    \cup {Newtype(v) : v \in S}
    \cup {[kind |-> "newtype_variant", ordinal |-> 1, val |-> v] : v \in S}

RECURSIVE Wrapped(_)
\* values under at most d wrappers
Wrapped(d) ==
    IF d = 0 THEN Scalars \cup Compounds
    ELSE Wrapped(d - 1) \cup Wrap(Wrapped(d - 1))

Values == Wrapped(MaxWrap)

\* what is appended to a region
ElemValues == {T, A}

\* a key of every kind; a compound key is told by its first call
KeyInputs ==
    Scalars \cup Wrap({A}) \cup {Str(s) : s \in StrInputs}
    \cup {K(k) : k \in {"seq", "tuple", "tuple_struct", "tuple_variant",
                        "map", "struct", "struct_variant"}}

NoCall == [op |-> "none"]

-----------------------------------------------------------------------------
(* State *)

\* Serializer::new(writer) over a Vec, or over a sink with room for
\* 0..MaxRoom bytes.  A wide visitor makes one call with inputs from the
\* large sets (and one more on the writer it got); a deep visitor makes up
\* to MaxOps calls with inputs from the small sets.
Init ==
    /\ probe \in {"wide", "deep"}
    /\ overflow_checks \in BOOLEAN
    /\ inner \in {[buf |-> <<>>, limited |-> FALSE, room |-> 0]}
                 \cup {[buf |-> <<>>, limited |-> TRUE, room |-> r] :
                          r \in IF probe = "deep" THEN 0..MaxRoom ELSE {}}
    /\ result = "none"
    /\ call = NoCall
    /\ regions = <<>>
    /\ log = <<>>
    /\ ops = 0

\* no call made yet
Fresh == call = NoCall

\* the visitor returns the first Err it gets, and an encode is one value
Going ==
    /\ result \in {"none", "Ok"}
    /\ ops < (IF probe = "wide" THEN 2 ELSE MaxOps)

Wide == probe = "wide"

Top == regions[Len(regions)]

\* the writer a region is written through.  The writer itself holds
\* length_known alone; opened is the type it was handed out as, and at (the
\* place of its open marker on the sink), declared, count and keys are the
\* history of the region, kept for the properties
Region(opened, len) ==
    [opened |-> opened,
     length_known |-> len.known,
     at |-> Len(inner.buf) + 1,
     declared |-> len.n,
     count |-> 0,
     keys |-> 0]

IsMap(r) == r.opened = "map"
IsSeq(r) == r.opened = "seq"
IsStatic(r) == r.opened \notin {"seq", "map"}

\* a value may be serialized here: at the top level of a fresh serializer,
\* or as an element / value of the innermost open region
ValuePosition == Fresh \/ regions # <<>>

\* the innermost region has one more element (or value)
Counted(rs) ==
    IF rs = <<>> THEN rs
    ELSE [rs EXCEPT ![Len(rs)].count = @ + 1]

\* the effect of a call that issues tr
Do(op, val, tr, rs) ==
    LET s == Run(tr)
    IN /\ inner' = s.inner
       /\ log' = s.log
       /\ result' = s.result
       /\ call' = [op |-> op, val |-> val, was |-> Len(inner.buf)]
       /\ regions' = IF s.result = "Ok" THEN rs ELSE regions
       /\ ops' = ops + 1
       /\ UNCHANGED <<probe, overflow_checks>>

-----------------------------------------------------------------------------
(* Top-level calls: value.serialize(&mut serializer) in to_vec / to_writer *)

Ints(ty) == IF Wide THEN IntInputs(ty) ELSE {Lit(1, ty), max_value(ty)}

emit_bool ==
    /\ Fresh /\ Going
    /\ \E v \in BOOLEAN : Do("serialize_bool", Bool(v), serialize_bool(v), regions)

emit_i8 ==
    /\ Fresh /\ Going
    /\ \E v \in Ints("i8") : Do("serialize_i8", v, serialize_i8(v), regions)

emit_i16 ==
    /\ Fresh /\ Going
    /\ \E v \in Ints("i16") : Do("serialize_i16", v, serialize_i16(v), regions)

emit_i32 ==
    /\ Fresh /\ Going
    /\ \E v \in Ints("i32") : Do("serialize_i32", v, serialize_i32(v), regions)

emit_i64 ==
    /\ Fresh /\ Going
    /\ \E v \in Ints("i64") : Do("serialize_i64", v, serialize_i64(v), regions)

emit_u8 ==
    /\ Fresh /\ Going
    /\ \E v \in Ints("u8") : Do("serialize_u8", v, serialize_u8(v), regions)

emit_u16 ==
    /\ Fresh /\ Going
    /\ \E v \in Ints("u16") : Do("serialize_u16", v, serialize_u16(v), regions)

emit_u32 ==
    /\ Fresh /\ Going
    /\ \E v \in Ints("u32") : Do("serialize_u32", v, serialize_u32(v), regions)

emit_u64 ==
    /\ Fresh /\ Going
    /\ \E v \in Ints("u64") : Do("serialize_u64", v, serialize_u64(v), regions)

emit_f32 ==
    /\ Fresh /\ Going
    /\ \E v \in F32Inputs : Do("serialize_f32", Float("f32", v), serialize_f32(v), regions)

emit_f64 ==
    /\ Fresh /\ Going
    /\ \E v \in F64Inputs : Do("serialize_f64", Float("f64", v), serialize_f64(v), regions)

emit_char ==
    /\ Fresh /\ Going
    /\ \E c \in (IF Wide THEN CharInputs ELSE {65, 192}) :
          Do("serialize_char", Char(c), serialize_char(c), regions)

emit_str ==
    /\ Fresh /\ Going
    /\ \E v \in (IF Wide THEN StrInputs ELSE {<<>>, <<97>>}) :
          Do("serialize_str", Str(v), serialize_str(v), regions)

emit_bytes ==
    /\ Fresh /\ Going
    /\ \E v \in (IF Wide THEN BytesInputs ELSE {<<>>, <<255>>}) :
          Do("serialize_bytes", Buf(v), serialize_bytes(v), regions)

emit_none ==
    /\ Fresh /\ Going
    /\ Do("serialize_none", K("none"), serialize_none, regions)

emit_some ==
    /\ Fresh /\ Going
    /\ \E v \in Values : Do("serialize_some", Some(v), serialize_some(v), regions)

emit_unit ==
    /\ Fresh /\ Going
    /\ Do("serialize_unit", K("unit"), serialize_unit, regions)

emit_unit_struct ==
    /\ Fresh /\ Going
    /\ Do("serialize_unit_struct", K("unit_struct"), serialize_unit_struct, regions)

emit_unit_variant ==
    /\ Fresh /\ Going
    /\ \E i \in OrdinalInputs :
          Do("serialize_unit_variant", [ordinal |-> i], serialize_unit_variant(i), regions)

emit_newtype_struct ==
    /\ Fresh /\ Going
    /\ \E v \in Values :
          Do("serialize_newtype_struct", Newtype(v), serialize_newtype_struct(v), regions)

emit_newtype_variant ==
    /\ Fresh /\ Going
    /\ \E i \in (IF Wide THEN OrdinalInputs ELSE {1}), v \in Values :
          Do("serialize_newtype_variant", [ordinal |-> i, val |-> v],
             serialize_newtype_variant(i, v), regions)

-----------------------------------------------------------------------------
(* Opening a region, at the top level or as an element of the innermost    *)
(* open region                                                             *)

\* (a wide visitor opens one region)
CanBegin ==
    /\ ValuePosition /\ Going
    /\ Len(regions) < MaxDepth
    /\ Wide => Fresh

Counts ==
    IF Wide THEN CountInputs
    ELSE IF Fresh THEN 0..MaxCount
    ELSE {MaxCount}
Lens == {NoLen} \cup {SomeLen(n) : n \in Counts}
Ordinals == IF Wide THEN OrdinalInputs ELSE {1}

begin_seq ==
    /\ CanBegin
    /\ \E len \in Lens :
          Do("serialize_seq", len, serialize_seq(len),
             Append(regions, Region("seq", len)))

begin_map ==
    /\ CanBegin
    /\ \E len \in Lens :
          Do("serialize_map", len, serialize_map(len),
             Append(regions, Region("map", len)))

begin_tuple ==
    /\ CanBegin
    /\ \E n \in Counts :
          Do("serialize_tuple", SomeLen(n), serialize_tuple(usize(n)),
             Append(regions, Region("tuple", SomeLen(n))))

begin_tuple_struct ==
    /\ CanBegin
    /\ \E n \in Counts :
          Do("serialize_tuple_struct", SomeLen(n), serialize_tuple_struct(usize(n)),
             Append(regions, Region("tuple_struct", SomeLen(n))))

begin_struct ==
    /\ CanBegin
    /\ \E n \in Counts :
          Do("serialize_struct", SomeLen(n), serialize_struct(usize(n)),
             Append(regions, Region("struct", SomeLen(n))))

\* field counts of a variant: the small counts, and usize::MAX
VariantLens == {usize(n) : n \in Counts} \cup (IF Wide THEN {usize_MAX} ELSE {})

\* the writer of a variant: a tuple declared with the count that was
\* written, the ordinal being its first element
VariantRegion(opened, len) ==
    [Region(opened, SomeLen(as_int(wrapping_add_1(len)))) EXCEPT !.count = 1]

begin_tuple_variant ==
    /\ CanBegin
    /\ \E len \in VariantLens, i \in Ordinals :
          Do("serialize_tuple_variant", [ordinal |-> i, fields |-> len],
             serialize_tuple_variant(i, len),
             Append(regions, VariantRegion("tuple_variant", len)))

begin_struct_variant ==
    /\ CanBegin
    /\ \E len \in VariantLens, i \in Ordinals :
          Do("serialize_struct_variant", [ordinal |-> i, fields |-> len],
             serialize_struct_variant(i, len),
             Append(regions, VariantRegion("struct_variant", len)))

-----------------------------------------------------------------------------
(* The writers: Dynamic (SerializeSeq, SerializeMap) and Static *)

InRegion == regions # <<>> /\ Going

\* the innermost region is closed; it was an element of the one around it
Closed == Counted(SubSeq(regions, 1, Len(regions) - 1))

\* SerializeSeq::serialize_element
append_element ==
    /\ InRegion /\ IsSeq(Top)
    /\ \E v \in ElemValues :
          Do("SerializeSeq::serialize_element", v, Serialize(v), Counted(regions))

\* SerializeSeq::end
close_seq ==
    /\ InRegion /\ IsSeq(Top)
    /\ Do("SerializeSeq::end", Top, Dynamic_seq_end(Top.length_known), Closed)

\* SerializeMap::serialize_key
append_key ==
    /\ InRegion /\ IsMap(Top)
    /\ \E k \in (IF Wide THEN KeyInputs ELSE {A, T, Some(A)}) :
          Do("SerializeMap::serialize_key", k, MapKeySerializer(k),
             [regions EXCEPT ![Len(regions)].keys = @ + 1])

\* SerializeMap::serialize_value
append_value ==
    /\ InRegion /\ IsMap(Top)
    /\ \E v \in ElemValues :
          Do("SerializeMap::serialize_value", v, Serialize(v), Counted(regions))

\* SerializeMap::end
close_map ==
    /\ InRegion /\ IsMap(Top)
    /\ Do("SerializeMap::end", Top, Dynamic_map_end(Top.length_known), Closed)

\* SerializeTuple::serialize_element, and serialize_field of
\* SerializeTupleStruct, SerializeTupleVariant, SerializeStruct and
\* SerializeStructVariant, which forward to it
append_field ==
    /\ InRegion /\ IsStatic(Top)
    /\ \E v \in ElemValues :
          Do("SerializeTuple::serialize_element", v, Serialize(v), Counted(regions))

\* SerializeTuple::end, and the four impls that forward to it
close_static ==
    /\ InRegion /\ IsStatic(Top)
    /\ Do("SerializeTuple::end", Top, Static_end, Closed)

-----------------------------------------------------------------------------

Next ==
    \/ emit_bool
    \/ emit_i8 \/ emit_i16 \/ emit_i32 \/ emit_i64
    \/ emit_u8 \/ emit_u16 \/ emit_u32 \/ emit_u64
    \/ emit_f32 \/ emit_f64
    \/ emit_char \/ emit_str \/ emit_bytes
    \/ emit_none \/ emit_some \/ emit_unit \/ emit_unit_struct
    \/ emit_unit_variant \/ emit_newtype_struct \/ emit_newtype_variant
    \/ begin_seq \/ begin_map \/ begin_tuple \/ begin_tuple_struct
    \/ begin_struct \/ begin_tuple_variant \/ begin_struct_variant
    \/ append_element \/ close_seq
    \/ append_key \/ append_value \/ close_map
    \/ append_field \/ close_static

Spec == Init /\ [][Next]_vars

\* the bytes the last call put on the sink
Written == SubSeq(inner.buf, call.was + 1, Len(inner.buf))

-----------------------------------------------------------------------------
(* Mathematical integers, for stating the properties: sign and magnitude, *)
(* the magnitude as 8 big-endian bytes                                     *)

Pad8(bits) == Fill(8 - Len(bits), 0) \o bits

\* two's complement negation of a bit pattern
Negate(bits) ==
    LET c == [i \in 1..Len(bits) |-> 255 - bits[i]]
    IN [i \in 1..Len(bits) |->
          IF \A j \in (i + 1)..Len(bits) : c[j] = 255
          THEN (c[i] + 1) % 256 ELSE c[i]]

\* the integer a typed bit pattern denotes
MathVal(v) ==
    IF Signed(v.ty) /\ v.bits[1] >= 128
    THEN [neg |-> TRUE, mag |-> Pad8(Negate(v.bits))]
    ELSE [neg |-> FALSE, mag |-> Pad8(v.bits)]

\* 2^(8k-1) as a magnitude
HalfRange(k) == Fill(8 - k, 0) \o <<128>> \o Fill(k - 1, 0)

\* -2^(8k-1) <= m <= 2^(8k-1) - 1
FitsSigned(m, k) ==
    IF m.neg THEN m.mag = HalfRange(k) \/ LtBytes(m.mag, HalfRange(k))
    ELSE LtBytes(m.mag, HalfRange(k))

\* 0 <= m <= 2^(8k) - 1
FitsUnsigned(m, k) == ~m.neg /\ \A i \in 1..(8 - k) : m.mag[i] = 0

CanHold(ty, m) ==
    IF Signed(ty) THEN FitsSigned(m, Width(ty)) ELSE FitsUnsigned(m, Width(ty))

\* the first marker in the ordering i, U, I, l, L, H whose range contains m
SmallestMarker(m) ==
    CASE FitsSigned(m, 1) -> marker_I8
      [] ~FitsSigned(m, 1) /\ FitsUnsigned(m, 1) -> marker_U8
      [] ~FitsSigned(m, 1) /\ ~FitsUnsigned(m, 1) /\ FitsSigned(m, 2) -> marker_I16
      [] ~FitsUnsigned(m, 1) /\ ~FitsSigned(m, 2) /\ FitsSigned(m, 4) -> marker_I32
      [] ~FitsSigned(m, 4) /\ FitsSigned(m, 8) -> marker_I64
      [] OTHER -> marker_HI_PRECISION

\* the integer type a fixed-width marker announces
MarkerType(mk) ==
    CASE mk = marker_I8 -> "i8"
      [] mk = marker_U8 -> "u8"
      [] mk = marker_I16 -> "i16"
      [] mk = marker_I32 -> "i32"
      [] mk = marker_I64 -> "i64"

FixedMarkers == {marker_I8, marker_U8, marker_I16, marker_I32, marker_I64}

\* the value of ty that denotes m (for m in ty's range)
OfMath(m, ty) ==
    [ty |-> ty,
     bits |-> SubSeq(IF m.neg THEN Negate(m.mag) ELSE m.mag, 8 - Width(ty) + 1, 8)]

Nat8(n) == Lit(n, "u64").bits

IntOps == {"serialize_i8", "serialize_i16", "serialize_i32", "serialize_i64",
           "serialize_u8", "serialize_u16", "serialize_u32", "serialize_u64"}

\* the last call was an integer emission that the sink accepted
IntCall == call.op \in IntOps /\ result = "Ok"

\* the bytes a sequence of successful calls puts on the sink
RECURSIVE Bytes(_)
Bytes(tr) == IF tr = <<>> THEN <<>> ELSE Head(tr).bytes \o Bytes(Tail(tr))

-----------------------------------------------------------------------------
(* C1: narrowing minimality.  Every integer emitted through emit_iN or    *)
(* emit_uN starts with the first marker of i, U, I, l, L, H whose range    *)
(* contains the value; the boundary values -129, 128, 256, 2^15, 2^31,     *)
(* 2^63-1, 2^63 and 2^64-1 select I, U, I, l, L, L, H and H.               *)

MarkerOf(m, mk) == MathVal(call.val) = m => inner.buf[1] = mk

C1_NarrowingMinimality ==
    IntCall =>
        /\ inner.buf[1] = SmallestMarker(MathVal(call.val))
        /\ MarkerOf([neg |-> TRUE, mag |-> Nat8(129)], marker_I16)
        /\ MarkerOf([neg |-> FALSE, mag |-> Nat8(128)], marker_U8)
        /\ MarkerOf([neg |-> FALSE, mag |-> Nat8(256)], marker_I16)
        /\ MarkerOf([neg |-> FALSE, mag |-> Nat8(32768)], marker_I32)
        /\ MarkerOf([neg |-> FALSE, mag |-> HalfRange(4)], marker_I64)
        /\ MarkerOf([neg |-> FALSE, mag |-> <<127>> \o Fill(7, 255)], marker_I64)
        /\ MarkerOf([neg |-> FALSE, mag |-> HalfRange(8)], marker_HI_PRECISION)
        /\ MarkerOf([neg |-> FALSE, mag |-> Fill(8, 255)], marker_HI_PRECISION)

\* the first marker whose range contains m, in the ordering i, U, I, l, L for
\* a signed declared type and U, I, l, L, H for an unsigned one
SmallestMarkerFor(ty, m) ==
    IF ~Signed(ty) /\ FitsUnsigned(m, 1) THEN marker_U8 ELSE SmallestMarker(m)

(* C1 as amended: the marker is the first whose range contains the value  *)
(* in the ordering i, U, I, l, L for emit_iN and U, I, l, L, H for         *)
(* emit_uN (so 0..127 through an unsigned operation gets U, not i); the    *)
(* boundary values select I, U, I, l, L, L, H and H as stated.             *)

C1_NarrowingBySignedness ==
    IntCall =>
        /\ inner.buf[1] = SmallestMarkerFor(call.val.ty, MathVal(call.val))
        /\ MarkerOf([neg |-> TRUE, mag |-> Nat8(129)], marker_I16)
        /\ MarkerOf([neg |-> FALSE, mag |-> Nat8(128)], marker_U8)
        /\ MarkerOf([neg |-> FALSE, mag |-> Nat8(256)], marker_I16)
        /\ MarkerOf([neg |-> FALSE, mag |-> Nat8(32768)], marker_I32)
        /\ MarkerOf([neg |-> FALSE, mag |-> HalfRange(4)], marker_I64)
        /\ MarkerOf([neg |-> FALSE, mag |-> <<127>> \o Fill(7, 255)], marker_I64)
        /\ MarkerOf([neg |-> FALSE, mag |-> HalfRange(8)], marker_HI_PRECISION)
        /\ MarkerOf([neg |-> FALSE, mag |-> Fill(8, 255)], marker_HI_PRECISION)

\* 128 emitted through emit_i64 came out as U 0x80
C1_Witness ==
    /\ call.op = "serialize_i64" /\ call.val = Lit(128, "i64")
    /\ inner.buf = <<marker_U8, 128>>

(* C2: narrowing is lossless.  When the marker is one of i, U, I, l, L    *)
(* the payload has the marker's width and, read as a big-endian integer    *)
(* of the marker's signedness, is the value that was emitted.              *)

C2_Lossless ==
    (IntCall /\ inner.buf[1] \in FixedMarkers) =>
        LET ty == MarkerType(inner.buf[1])
            payload == Tail(inner.buf)
        IN /\ Len(payload) = Width(ty)
           /\ MathVal([ty |-> ty, bits |-> payload]) = MathVal(call.val)

\* -129 emitted through emit_i32 came out as I 0xFF 0x7F
C2_Witness ==
    /\ call.op = "serialize_i32"
    /\ call.val = [ty |-> "i32", bits |-> <<255, 255, 255, 127>>]
    /\ inner.buf = <<marker_I16, 255, 127>>

(* C3: declared-width independence.  Every emit operation whose declared  *)
(* type can hold the emitted value writes the same bytes for it.           *)

C3_WidthIndependence ==
    IntCall =>
        \A ty \in IntTypes :
            CanHold(ty, MathVal(call.val)) =>
                Bytes(serialize_int(ty, OfMath(MathVal(call.val), ty))) = inner.buf

(* C3 as amended: two emit operations whose declared types can hold the   *)
(* value write the same bytes for it when they have the same signedness    *)
(* or the value lies outside 0..127; for a value in 0..127 a signed        *)
(* operation writes i and an unsigned one U, followed by the same byte.    *)

Small(m) == ~m.neg /\ FitsSigned(m, 1)

C3_ValueAndSignedness ==
    IntCall =>
        LET m == MathVal(call.val)
        IN \A ty \in IntTypes :
             CanHold(ty, m) =>
                LET other == Bytes(serialize_int(ty, OfMath(m, ty)))
                IN IF Signed(ty) = Signed(call.val.ty) \/ ~Small(m)
                   THEN other = inner.buf
                   ELSE /\ Tail(other) = Tail(inner.buf)
                        /\ Len(other) = 2
                        /\ inner.buf[1] = IF Signed(call.val.ty) THEN marker_I8 ELSE marker_U8
                        /\ other[1] = IF Signed(ty) THEN marker_I8 ELSE marker_U8

\* 255 emitted through emit_u16: i16, i32, i64, u8, u32 and u64 hold it too
C3_Witness ==
    /\ call.op = "serialize_u16" /\ call.val = Lit(255, "u16")
    /\ inner.buf = <<marker_U8, 255>>
    /\ {ty \in IntTypes : CanHold(ty, MathVal(call.val))} = IntTypes \ {"i8"}

(* C4: high-precision fallback.  A u64 above i64::MAX is written as H,    *)
(* then U and the digit count (19 or 20), then the decimal digits of the   *)
(* value and nothing else; the emission succeeds.                          *)

RECURSIVE CarryIn(_, _, _)
\* the carry into byte i when bits * 10 + d is computed
CarryIn(bits, d, i) ==
    IF i = Len(bits) THEN d
    ELSE (bits[i + 1] * 10 + CarryIn(bits, d, i + 1)) \div 256

MulAdd10(bits, d) ==
    [i \in 1..Len(bits) |-> (bits[i] * 10 + CarryIn(bits, d, i)) % 256]

RECURSIVE ParseDecimal(_)
\* the 8-byte magnitude a string of ASCII digits denotes
ParseDecimal(ds) ==
    IF ds = <<>> THEN Fill(8, 0)
    ELSE MulAdd10(ParseDecimal(SubSeq(ds, 1, Len(ds) - 1)), ds[Len(ds)] - 48)

AboveI64Max(v) == v.ty = "u64" /\ v.bits[1] >= 128

C4_HighPrecision ==
    (call.op = "serialize_u64" /\ AboveI64Max(call.val) /\ ~inner.limited) =>
        LET digits == SubSeq(inner.buf, 4, Len(inner.buf))
        IN /\ result = "Ok"
           /\ inner.buf[1] = marker_HI_PRECISION
           /\ inner.buf[2] = marker_U8
           /\ inner.buf[3] \in {19, 20}
           /\ Len(digits) = inner.buf[3]
           /\ \A i \in 1..Len(digits) : digits[i] \in 48..57
           /\ digits[1] # 48
           /\ ParseDecimal(digits) = call.val.bits

\* u64::MAX came out as H U 20 "18446744073709551615"
C4_Witness ==
    /\ call.op = "serialize_u64" /\ call.val = max_value("u64")
    /\ inner.buf = <<marker_HI_PRECISION, marker_U8, 20,
                     49, 56, 52, 52, 54, 55, 52, 52, 48, 55,
                     51, 55, 48, 57, 53, 53, 49, 54, 49, 53>>

-----------------------------------------------------------------------------
(* Unsigned narrowing of a count below 2^31, written out with arithmetic:  *)
(* U and one byte up to 255, I and two bytes up to 32767, else l and four  *)

NarrowLen(n) ==
    IF n <= 255 THEN <<marker_U8, n>>
    ELSE IF n <= 32767 THEN <<marker_I16, n \div 256, n % 256>>
    ELSE <<marker_I32, (n \div 16777216) % 256, (n \div 65536) % 256,
           (n \div 256) % 256, n % 256>>

BeginOps == {"serialize_seq", "serialize_map"}
EndOps == {"SerializeSeq::end", "SerializeMap::end"}

OpenMarker(op) == IF op = "serialize_seq" THEN marker_ARR_START ELSE marker_OBJ_START

(* C5: framing.  begin_seq / begin_map with a known length n writes the   *)
(* open marker, #, and n through unsigned narrowing, and the close of such *)
(* a region writes nothing, whatever was appended; with unknown length     *)
(* begin writes the open marker alone and close writes exactly one byte,   *)
(* ] for a sequence and } for a map.                                       *)

C5_Framing ==
    /\ (call.op \in BeginOps /\ result = "Ok") =>
          Written = <<OpenMarker(call.op)>>
                      \o (IF call.val.known
                          THEN <<marker_LENGTH>> \o NarrowLen(call.val.n)
                          ELSE <<>>)
    /\ (call.op \in EndOps /\ call.val.length_known) =>
          result = "Ok" /\ Written = <<>>
    /\ (call.op \in EndOps /\ ~call.val.length_known /\ result = "Ok") =>
          Written = <<IF call.val.opened = "seq" THEN marker_ARR_END ELSE marker_OBJ_END>>

\* a map declared with one pair got a key and a value, and its close wrote nothing
C5_Witness ==
    /\ call.op = "SerializeMap::end"
    /\ call.val.length_known /\ call.val.declared = 1
    /\ call.val.keys = 1 /\ call.val.count = 1
    /\ inner.buf = <<marker_OBJ_START, marker_LENGTH, marker_U8, 1,
                     marker_U8, 1, 97, marker_TRUE>>

(* C6: key rejection.  append_key with a key that is not a string fails   *)
(* with KeyMustBeAString and leaves the sink, and the writer, as they      *)
(* were: nothing is written for that pair.                                 *)

KeyCall == call.op = "SerializeMap::serialize_key"

C6_KeyRejection ==
    [][(ops' = ops + 1 /\ call'.op = "SerializeMap::serialize_key"
          /\ call'.val.kind # "str")
       => (/\ result' = "KeyMustBeAString"
           /\ result' \notin {"Io", "Message", "Ok"}
           /\ inner' = inner
           /\ log' = log
           /\ regions' = regions)]_vars

\* Some("a") was refused as the first key of a map written to a Vec
C6_Witness ==
    /\ KeyCall /\ call.val = Some(A)
    /\ result = "KeyMustBeAString"
    /\ inner.buf = <<marker_OBJ_START>>

(* C7: transparency.  emit_some(v) and emit_newtype_struct(v) write the   *)
(* bytes of v alone, under any number of wrappers; emit_none and emit_unit *)
(* write the single byte Z.                                                *)

RECURSIVE Strip(_)
\* v without the Some / newtype-struct wrappers around it
Strip(v) == IF v.kind \in {"some", "newtype_struct"} THEN Strip(v.val) ELSE v

C7_Transparency ==
    ~inner.limited =>
        /\ call.op \in {"serialize_some", "serialize_newtype_struct"} =>
              /\ result = "Ok"
              /\ Written = Bytes(Serialize(call.val.val))
              /\ Written = Bytes(Serialize(Strip(call.val)))
        /\ call.op \in {"serialize_none", "serialize_unit"} =>
              Written = <<marker_NULL>>

\* Some(Some("a")) came out as S U 1 'a'
C7_Witness ==
    /\ call.op = "serialize_some" /\ call.val = Some(Some(A))
    /\ inner.buf = <<marker_STRING, marker_U8, 1, 97>>

(* C8: an I/O failure is terminal.  Once the sink has rejected a write the *)
(* call returns the I/O error, no write is attempted after the rejected    *)
(* one in that encode, and the sink holds exactly the bytes it accepted,   *)
(* in the order they were written.                                         *)

Rejected(e) == e.taken < Len(e.bytes)

RECURSIVE Accepted(_)
\* the bytes the sink accepted over the calls of a log
Accepted(l) ==
    IF l = <<>> THEN <<>>
    ELSE Accepted(SubSeq(l, 1, Len(l) - 1))
           \o SubSeq(l[Len(l)].bytes, 1, l[Len(l)].taken)

C8_IoFailureTerminal ==
    /\ \A i \in 1..Len(log) : Rejected(log[i]) => (i = Len(log) /\ result = "Io")
    /\ result = "Io" => (log # <<>> /\ Rejected(log[Len(log)]))
    /\ inner.buf = Accepted(log)

\* the sink took "[TS" and rejected the length of the string element: the
\* payload was never attempted, the region stays open and no closing marker
\* was attempted
C8_Witness ==
    /\ call.op = "SerializeSeq::serialize_element" /\ call.val = A
    /\ result = "Io"
    /\ regions # <<>> /\ ~Top.length_known
    /\ inner.buf = <<marker_ARR_START, marker_TRUE, marker_STRING>>
    /\ Len(log) = 4 /\ Rejected(log[4])

(* C9: char encoding.  A char up to 127 is written C and that byte; any   *)
(* other char is written as emit_u32 writes its scalar value: U for        *)
(* 128..255, I for 256..32767, l above; never i, L or H.                   *)

C9_CharEncoding ==
    (call.op = "serialize_char" /\ result = "Ok") =>
        LET c == call.val.c
        IN /\ c <= 127 => Written = <<marker_CHAR, c>>
           /\ c > 127 =>
                /\ Written = Bytes(serialize_u32(Lit(c, "u32")))
                /\ Written = NarrowLen(c)
           /\ Written[1] = marker_CHAR => Written[2] <= 127
           /\ Written[1] \in {marker_CHAR, marker_U8, marker_I16, marker_I32}

\* U+AC00 came out as l 00 00 AC 00
C9_Witness ==
    /\ call.op = "serialize_char" /\ call.val.c = 44032
    /\ inner.buf = <<marker_I32, 0, 0, 172, 0>>

(* C10: length-prefixed payloads.  emit_str writes S, emit_bytes writes   *)
(* [ $ U #, a string key writes no header; then the byte length through    *)
(* unsigned narrowing and the bytes themselves, nothing after them; so     *)
(* emit_str(s) is S followed by the key encoding of s.                     *)

C10_LengthPrefixed ==
    result = "Ok" =>
        /\ call.op = "serialize_str" =>
              Written = <<marker_STRING>> \o NarrowLen(Len(call.val.s)) \o call.val.s
        /\ call.op = "serialize_bytes" =>
              Written = <<marker_ARR_START, marker_TYPE, marker_U8, marker_LENGTH>>
                          \o NarrowLen(Len(call.val.s)) \o call.val.s
        /\ (KeyCall /\ call.val.kind = "str") =>
              /\ Written = NarrowLen(Len(call.val.s)) \o call.val.s
              /\ <<marker_STRING>> \o Written = Bytes(serialize_str(call.val.s))

\* a key of 256 bytes: its length is written I 01 00
C10_Witness ==
    /\ KeyCall /\ call.val.kind = "str" /\ Len(call.val.s) = 256
    /\ result = "Ok"
    /\ SubSeq(Written, 1, 3) = <<marker_I16, 1, 0>>
    /\ Len(Written) = 259

-----------------------------------------------------------------------------
(* Variants *)

VariantBeginOps == {"serialize_tuple_variant", "serialize_struct_variant"}
VariantKinds == {"tuple_variant", "struct_variant"}

\* [ #
TupleHeader == <<marker_ARR_START, marker_LENGTH>>

\* the number that starts bytes, written U, I, l or L: its magnitude and the
\* bytes it takes
ReadCount(bytes) ==
    LET w == CASE bytes[1] = marker_U8 -> 1
               [] bytes[1] = marker_I16 -> 2
               [] bytes[1] = marker_I32 -> 4
               [] bytes[1] = marker_I64 -> 8
               [] OTHER -> 0
    IN [mag |-> Pad8(SubSeq(bytes, 2, 1 + w)), size |-> 1 + w]

\* mag - 1 for a magnitude that is not zero
Pred(mag) ==
    [i \in 1..Len(mag) |->
        IF \A j \in (i + 1)..Len(mag) : mag[j] = 0
        THEN (mag[i] + 255) % 256 ELSE mag[i]]

\* the bytes after [ # hold a narrowed count that is len + 1 as a number,
\* then the narrowed ordinal, then nothing
CountsOrdinalAndFields(bytes, ordinal, len) ==
    /\ Len(bytes) >= 2
    /\ LET c == ReadCount(bytes)
       IN /\ c.size > 1
          /\ c.mag # Fill(8, 0)
          /\ Pred(c.mag) = len.bits
          /\ SubSeq(bytes, 1, c.size) = NarrowLen(as_int([bits |-> c.mag]))
          /\ SubSeq(bytes, c.size + 1, Len(bytes)) = NarrowLen(ordinal)

\* what the variant operations other than the two begins write: close
\* nothing, emit_newtype_variant [ # U 2, the ordinal and the value,
\* emit_unit_variant the ordinal alone; a whole tuple or struct variant is
\* written with the count 1 + the number of its fields
VariantBodies ==
    /\ (call.op = "SerializeTuple::end" /\ call.val.opened \in VariantKinds) =>
          result = "Ok" /\ Written = <<>>
    /\ (call.op = "serialize_newtype_variant" /\ result = "Ok") =>
          Written = TupleHeader \o <<marker_U8, 2>> \o NarrowLen(call.val.ordinal)
                      \o Bytes(Serialize(call.val.val))
    /\ (call.op = "serialize_unit_variant" /\ result = "Ok") =>
          Written = NarrowLen(call.val.ordinal)
    /\ (call.op = "serialize_some" /\ result = "Ok"
          /\ call.val.val.kind \in VariantKinds) =>
          Written = TupleHeader \o NarrowLen(1 + Len(call.val.val.parts))
                      \o NarrowLen(call.val.val.ordinal)
                      \o Bytes(SerializeAll(call.val.val.parts))

-----------------------------------------------------------------------------
(* Declared counts *)

\* the operations that open a region with a length given by the caller
CountedBeginOps ==
    {"serialize_seq", "serialize_map", "serialize_tuple",
     "serialize_tuple_struct", "serialize_struct"}
CountedKinds == {"seq", "map", "tuple", "tuple_struct", "struct"}

CloseOps == {"SerializeSeq::end", "SerializeMap::end", "SerializeTuple::end"}
ElementOps ==
    {"SerializeSeq::serialize_element", "SerializeMap::serialize_value",
     "SerializeTuple::serialize_element"}

\* the last call closed a region that was opened with a known length
ClosedKnown ==
    /\ call.op \in CloseOps
    /\ call.val.opened \in CountedKinds
    /\ call.val.length_known

\* [ or {, and # with the narrowed count when the length is known
Opening(kind, len) ==
    <<IF kind = "map" THEN marker_OBJ_START ELSE marker_ARR_START>>
      \o (IF len.known THEN <<marker_LENGTH>> \o NarrowLen(len.n) ELSE <<>>)

\* the elements of a compound value
PartsOf(v) ==
    IF v.kind = "map"
    THEN [i \in 1..Len(v.pairs) |-> v.pairs[i][2]]
    ELSE v.parts

(* C12 as stated: the declared-count invariant.  A region opened with a   *)
(* known length n has received exactly n elements (n keys and n values    *)
(* for a map) at the moment it is closed.                                  *)
C12_DeclaredCount ==
    ClosedKnown =>
        /\ call.val.count = call.val.declared
        /\ call.val.opened = "map" => call.val.keys = call.val.declared

(* C12, the count is the caller's: a region opened with a known length n   *)
(* is written with the count n, and the writer neither counts nor checks   *)
(* what follows: every append of an element is passed on to the encoder    *)
(* and the close succeeds and writes nothing, whether fewer, exactly or    *)
(* more than n elements were appended.  The count written equals the       *)
(* number of elements encoded when the caller appends exactly n, as a      *)
(* whole value does; a region of unknown length is closed after any        *)
(* number of elements, zero included.                                      *)
C12_DeclaredCountUnchecked ==
    /\ (call.op \in CountedBeginOps /\ result = "Ok") =>
          /\ Written = Opening(Top.opened, call.val)
          /\ Top.length_known = call.val.known
          /\ call.val.known => Top.declared = call.val.n
          /\ Top.count = 0
    /\ (call.op \in ElementOps /\ ~inner.limited) =>
          /\ result = "Ok"
          /\ Written = Bytes(Serialize(call.val))
    /\ ClosedKnown => result = "Ok" /\ Written = <<>>
    /\ (call.op \in CloseOps /\ call.val.opened \in CountedKinds
          /\ ~call.val.length_known /\ ~inner.limited) =>
          result = "Ok" /\ Len(Written) = 1
    /\ (call.op = "serialize_some" /\ result = "Ok"
          /\ call.val.val.kind \in CountedKinds) =>
          LET v == call.val.val
          IN /\ v.len.known => v.len.n = Len(PartsOf(v))
             /\ SubSeq(Written, 1, Len(Opening(v.kind, v.len))) = Opening(v.kind, v.len)

\* a sequence declared with one element was closed after two
C12_Witness ==
    /\ call.op = "SerializeSeq::end"
    /\ call.val.length_known /\ call.val.declared = 1 /\ call.val.count = 2
    /\ result = "Ok"
    /\ inner.buf = <<marker_ARR_START, marker_LENGTH, marker_U8, 1,
                     marker_TRUE, marker_TRUE>>

-----------------------------------------------------------------------------
(* Keys and values *)

RECURSIVE PairsBytes(_)
\* for each pair the key, as its narrowed byte length and its bytes, and
\* then the value
PairsBytes(pairs) ==
    IF pairs = <<>> THEN <<>>
    ELSE NarrowLen(Len(Head(pairs)[1].s)) \o Head(pairs)[1].s
           \o Bytes(Serialize(Head(pairs)[2]))
           \o PairsBytes(Tail(pairs))

(* C13 as stated: key/value alternation.  On a map writer keys and values  *)
(* are written strictly alternately starting with a key: at any moment     *)
(* the keys written are the values written or one more, and at close       *)
(* every key has been followed by exactly one value.                       *)
C13_Alternation ==
    /\ \A i \in 1..Len(regions) :
          IsMap(regions[i]) =>
             /\ regions[i].count <= regions[i].keys
             /\ regions[i].keys <= regions[i].count + 1
    /\ call.op = "SerializeMap::end" => call.val.keys = call.val.count

(* C13, the order is the caller's: the map writer keeps no pairing state.  *)
(* append_key goes through the map-key encoder (a string key is written as *)
(* its narrowed length and bytes, any other key fails with                 *)
(* KeyMustBeAString and leaves the sink and the writer as they were),      *)
(* append_value through the ordinary encoder, and each of them, and close, *)
(* is accepted whatever calls came before: a value with no key before it,  *)
(* two keys in a row and a close after an unpaired key all succeed.  Keys  *)
(* and values alternate in the output when the caller alternates its       *)
(* calls, as a whole map value does.                                       *)
C13_NoPairingState ==
    [][ops' = ops + 1 =>
         /\ call'.op = "SerializeMap::serialize_key" =>
               IF call'.val.kind = "str"
               THEN /\ result' \in {"Ok", "Io"}
                    /\ ~inner.limited => result' = "Ok"
                    /\ result' = "Ok" =>
                          /\ Written' = NarrowLen(Len(call'.val.s)) \o call'.val.s
                          /\ regions' = [regions EXCEPT ![Len(regions)].keys = @ + 1]
               ELSE /\ result' = "KeyMustBeAString"
                    /\ inner' = inner
                    /\ regions' = regions
         /\ call'.op = "SerializeMap::serialize_value" =>
               /\ result' \in {"Ok", "Io"}
               /\ ~inner.limited => result' = "Ok"
               /\ result' = "Ok" =>
                     /\ Written' = Bytes(Serialize(call'.val))
                     /\ regions' = Counted(regions)
         /\ call'.op = "SerializeMap::end" =>
               /\ result' \in {"Ok", "Io"}
               /\ ~inner.limited => result' = "Ok"
               /\ result' = "Ok" =>
                     Written' = IF call'.val.length_known THEN <<>>
                                ELSE <<marker_OBJ_END>>
         /\ (call'.op = "serialize_some" /\ result' = "Ok"
               /\ call'.val.val.kind = "map") =>
               Written' = Opening("map", call'.val.val.len)
                            \o PairsBytes(call'.val.val.pairs)
                            \o (IF call'.val.val.len.known THEN <<>>
                                ELSE <<marker_OBJ_END>>)
       ]_vars

\* a map was closed after a value that no key came before: { T }
C13_Witness ==
    /\ call.op = "SerializeMap::end"
    /\ call.val.keys = 0 /\ call.val.count = 1
    /\ result = "Ok"
    /\ inner.buf = <<marker_OBJ_START, marker_TRUE, marker_OBJ_END>>

-----------------------------------------------------------------------------
(* Closers *)

Openers == {marker_ARR_START, marker_OBJ_START}
Closers == {marker_ARR_END, marker_OBJ_END}

CloserOf(open) == IF open = marker_ARR_START THEN marker_ARR_END ELSE marker_OBJ_END

Mismatch == <<0>>

RECURSIVE Awaiting(_, _, _)
\* the open markers of bytes[i..] that still await a closer, on top of
\* stack, reading a closer as the closer of the last of them: an open
\* marker before # or $ heads a counted region and awaits none, and a closer
\* that is not the one of the last open marker is a mismatch.  (For sinks
\* whose payloads hold no [ ] { }.)
Awaiting(bytes, i, stack) ==
    IF i > Len(bytes) THEN stack
    ELSE IF bytes[i] \in Openers
    THEN IF i < Len(bytes) /\ bytes[i + 1] \in {marker_LENGTH, marker_TYPE}
         THEN Awaiting(bytes, i + 1, stack)
         ELSE Awaiting(bytes, i + 1, Append(stack, bytes[i]))
    ELSE IF bytes[i] \in Closers
    THEN IF stack # <<>> /\ bytes[i] = CloserOf(stack[Len(stack)])
         THEN Awaiting(bytes, i + 1, SubSeq(stack, 1, Len(stack) - 1))
         ELSE Mismatch
    ELSE Awaiting(bytes, i + 1, stack)

RECURSIVE OpenMarkers(_)
\* the open markers of the regions of unknown length among rs, outermost first
OpenMarkers(rs) ==
    IF rs = <<>> THEN <<>>
    ELSE OpenMarkers(SubSeq(rs, 1, Len(rs) - 1))
           \o (IF rs[Len(rs)].length_known THEN <<>>
               ELSE <<IF IsMap(rs[Len(rs)]) THEN marker_OBJ_START
                      ELSE marker_ARR_START>>)

(* C14: matching and nesting of closers.  The close of a region of unknown *)
(* length writes exactly one byte, ] if and only if the region was opened  *)
(* with [ and } if and only if it was opened with {, and the region closed *)
(* is the last one opened among those still open; the close of a region of *)
(* known length writes nothing.  Read from its start, the sink never holds *)
(* a closer that is not the closer of the last open marker awaiting one,   *)
(* and the open markers awaiting a closer are those of the regions of      *)
(* unknown length that are open, in the order they were opened.            *)
C14_MatchingClosers ==
    /\ (call.op \in CloseOps /\ result = "Ok") =>
          /\ call.val.length_known => Written = <<>>
          /\ ~call.val.length_known =>
                /\ Len(Written) = 1
                /\ inner.buf[call.val.at] \in Openers
                /\ Written[1] = marker_ARR_END <=> inner.buf[call.val.at] = marker_ARR_START
                /\ Written[1] = marker_OBJ_END <=> inner.buf[call.val.at] = marker_OBJ_START
          /\ \A i \in 1..Len(regions) : regions[i].at < call.val.at
    /\ \A i \in 1..Len(regions), j \in 1..Len(regions) :
          i < j => regions[i].at < regions[j].at
    /\ ~Wide =>
          /\ Awaiting(inner.buf, 1, <<>>) # Mismatch
          /\ result = "Ok" => Awaiting(inner.buf, 1, <<>>) = OpenMarkers(regions)

\* a map inside a sequence, both of unknown length, both closed: [ { } ]
C14_Witness ==
    /\ call.op = "SerializeSeq::end" /\ ~call.val.length_known
    /\ result = "Ok"
    /\ regions = <<>>
    /\ inner.buf = <<marker_ARR_START, marker_OBJ_START, marker_OBJ_END, marker_ARR_END>>

====
